---- MODULE Spec2Model ----
(***************************************************************************)
(* The pybind11 Conan recipe (recipes/pybind11/conanfile.py) as a state    *)
(* machine.  One recipe instance is driven by a caller that may invoke     *)
(* source(), build(), package(), package_id() and package_info() in any    *)
(* order; each statement of a method is one step, so that the order of the *)
(* external-tool and filesystem operations inside a method is observable.  *)
(* Paths are sequences of components; os.path.join is concatenation.       *)
(***************************************************************************)
EXTENDS Naturals, Sequences, FiniteSets, TLC

\* Number of method calls the caller makes on the recipe instance in one run.
MaxCalls == 5

VARIABLES
    platform,      \* "posix" or "nt": decides what os.rename does to an existing target
    version,       \* PyBind11Conan.version
    pc,            \* program point: "idle", a statement label, or "raised"
    method,        \* the lifecycle method being (or last) executed
    ncalls,        \* number of method calls made so far
    ops,           \* operations that can fail, attempted in the current call: [op, ok]
    completed,     \* method name -> number of calls that returned normally
    work,          \* source folder: directory name -> set of files in it
    pkg,           \* package folder: path -> content
    installed,     \* the package folder as the last successful install left it
    installs,      \* number of successful cmake.install() so far
    archive_top,   \* top-level directory name of the last extracted archive
    fetched_url,   \* URL given to the last tools.get
    handles,       \* CMake objects constructed so far: id -> object
    _cmake,        \* PyBind11Conan._cmake: 0 for None, else the id of a CMake object
    cmake,         \* the local variable cmake of build() / package()
    returned,      \* ids of the handles _configure_cmake() has returned
    configures,    \* number of times cmake.configure() has been invoked
    cpp_info,      \* self.cpp_info: includedirs, builddirs, build_modules
    cpp_info0,     \* cpp_info as the packaging tool handed it to the recipe
    info,          \* self.info: what the package id is computed from
    package_key    \* the package id computed after package_id(), <<>> before

vars == <<platform, version, pc, method, ncalls, ops, completed, work, pkg,
          installed, installs, archive_top, fetched_url, handles, _cmake, cmake,
          returned, configures, cpp_info, cpp_info0, info, package_key>>

----------------------------------------------------------------------------
\* Recipe attributes and the folders the packaging tool provides.

name == "pybind11"

_source_subfolder == "source_subfolder"

Versions == {"2.10.1", "2.9.2"}

source_folder == <<"source_folder">>

package_folder == <<"package_folder">>

sys_executable == <<"usr", "bin", "python3">>

None == 0

EmptyMap == [k \in {} |-> TRUE]

\* os.path.join
join(a, b) == a \o b

\* Files of the upstream release archive, below its top-level directory.
ArchiveFiles == {"LICENSE", "CMakeLists.txt", "include"}

\* Values of the declared settings ("os" follows the platform).
SettingsSpace ==
    { [arch |-> "x86_64", compiler |-> "gcc", build_type |-> "Release"],
      [arch |-> "x86_64", compiler |-> "clang", build_type |-> "Debug"],
      [arch |-> "armv8", compiler |-> "gcc", build_type |-> "Debug"] }

\* cpp_info lists as the packaging tool initialises them, or already filled.
CppInfoSpace ==
    { [includedirs |-> <<>>, builddirs |-> <<>>, build_modules |-> <<>>],
      [includedirs |-> << <<"include">> >>, builddirs |-> << <<>> >>,
       build_modules |-> << <<"old.cmake">> >>] }

----------------------------------------------------------------------------
\* source()

\* The URL source() hands to tools.get.
fetch_url(v) ==
    "https://github.com/pybind/pybind11/archive/refs/tags/v" \o v \o ".tar.gz"

\* Faulty variant: the directory name is built with the wrong separator.
extracted_name_underscore(n, v) == n \o "_" \o v

\* "{}-{}".format(self.name, self.version): the directory source() renames.
extracted_name(n, v) == n \o "-" \o v

\* The directory name source() renames the extracted directory to.
source_rename_target == _source_subfolder

\* Top-level directory names an archive fetched for version v can carry.
ArchiveTops(v) == {"pybind11-" \o v, "pybind11-master"}

\* tools.get: the archive is unpacked below the source folder.
Extract(w, top) == (top :> ArchiveFiles) @@ w

\* os.rename on directories: the source must exist, and an existing
\* (non-empty) target directory is an error on every platform.
RenameDirOk(w, src, dst) == src \in DOMAIN w /\ dst \notin DOMAIN w

RenameDir(w, src, dst) ==
    [d \in (DOMAIN w \ {src}) \cup {dst} |-> IF d = dst THEN w[src] ELSE w[d]]

----------------------------------------------------------------------------
\* _configure_cmake()

\* A freshly constructed CMake(self) object.
NewHandle(m) ==
    [definitions |-> EmptyMap, configure_invoked |-> FALSE, configured |-> FALSE,
     cfg_definitions |-> EmptyMap, cfg_source_dir |-> <<>>, cfg_defs |-> EmptyMap,
     build_invoked |-> FALSE, install_invoked |-> FALSE, created_by |-> m]

\* Faulty variant: the memoized handle is ignored and a new one is built on every call.
configure_cmake_memo_never(c) == FALSE

\* "if self._cmake: return self._cmake"
configure_cmake_memo(c) == c # None

\* The three assignments to self._cmake.definitions, by program point.
definition_set(p) ==
    CASE p = "cfg_def1" -> [key |-> "PYBIND11_INSTALL", value |-> TRUE]
      [] p = "cfg_def2" -> [key |-> "PYBIND11_TEST", value |-> FALSE]
      [] p = "cfg_def3" -> [key |-> "PYBIND11_CMAKECONFIG_INSTALL_DIR",
                            value |-> <<"lib", "cmake", "pybind11">>]

\* Faulty variant: the recipe's own source folder is configured, not the subfolder.
configure_source_dir_top == source_folder

\* source_dir=os.path.join(self.source_folder, self._source_subfolder)
configure_source_dir == join(source_folder, <<_source_subfolder>>)

\* defs={"PYTHON_EXECUTABLE": sys.executable}
configure_defs == "PYTHON_EXECUTABLE" :> sys_executable

\* Whether the external tool can configure directory dir at all: it must hold
\* a CMakeLists.txt.  The source folder itself holds the exported one.
Configurable(w, dir) ==
    \/ dir = source_folder
    \/ \E d \in DOMAIN w : dir = join(source_folder, <<d>>) /\ "CMakeLists.txt" \in w[d]

\* Faulty variant: configure runs right after construction, before the definitions.
configure_after_early(p) ==
    CASE p = "cfg_new" -> "cfg_configure"
      [] p = "cfg_configure" -> "cfg_def1"
      [] p = "cfg_def1" -> "cfg_def2"
      [] p = "cfg_def2" -> "cfg_def3"
      [] p = "cfg_def3" -> "cfg_return"

\* Statement order of _configure_cmake() once no handle is memoized.
configure_after(p) ==
    CASE p = "cfg_new" -> "cfg_def1"
      [] p = "cfg_def1" -> "cfg_def2"
      [] p = "cfg_def2" -> "cfg_def3"
      [] p = "cfg_def3" -> "cfg_configure"
      [] p = "cfg_configure" -> "cfg_return"

----------------------------------------------------------------------------
\* package()

lib_folder == join(package_folder, <<"lib", "cmake", "pybind11">>)

ConfigFile == join(lib_folder, <<"pybind11Config.cmake">>)

InstallFile == join(lib_folder, <<"pybind11Install.cmake">>)

ConfigVersionFile == join(lib_folder, <<"pybind11ConfigVersion.cmake">>)

LicenseFile == join(package_folder, <<"licenses", "LICENSE">>)

\* self.copy("LICENSE", src=self._source_subfolder, dst="licenses"): copies the
\* file when the source has it, and copies nothing (without error) otherwise.
package_copy(p, w) ==
    IF _source_subfolder \in DOMAIN w /\ "LICENSE" \in w[_source_subfolder]
    THEN (LicenseFile :> <<"LICENSE", 0>>) @@ p
    ELSE p

\* Files the external tool's install step writes for a handle configured with
\* definitions d: headers, and the build-integration files in the directory
\* PYBIND11_CMAKECONFIG_INSTALL_DIR names, when PYBIND11_INSTALL is on.
CMakeFiles ==
    {"FindPythonLibsNew.cmake", "pybind11Config.cmake",
     "pybind11ConfigVersion.cmake", "pybind11Targets.cmake"}

InstallDir(d) ==
    IF "PYBIND11_CMAKECONFIG_INSTALL_DIR" \in DOMAIN d
    THEN join(package_folder, d["PYBIND11_CMAKECONFIG_INSTALL_DIR"])
    ELSE join(package_folder, <<"share", "cmake", "pybind11">>)

InstallEnabled(d) ==
    IF "PYBIND11_INSTALL" \in DOMAIN d THEN d["PYBIND11_INSTALL"] ELSE TRUE

InstallPaths(d) ==
    IF InstallEnabled(d)
    THEN {join(InstallDir(d), <<f>>) : f \in CMakeFiles}
         \cup {join(package_folder, <<"include", "pybind11", "pybind11.h">>)}
    ELSE {}

InstallTree(p, d, gen) ==
    [f \in InstallPaths(d) |-> <<f[Len(f)], gen>>] @@ p

\* os.rename on files: the source must exist; an existing target is replaced
\* on posix and is an error on nt.
RenameFileOk(p, src, dst, plat) ==
    src \in DOMAIN p /\ (dst \in DOMAIN p => plat = "posix")

RenameFile(p, src, dst) ==
    [f \in (DOMAIN p \ {src}) \cup {dst} |-> IF f = dst THEN p[src] ELSE p[f]]

\* The name package() gives the generated config file.
package_rename_target == InstallFile

\* Faulty variant: the renamed file is deleted instead of the version file.
package_unlink_target_wrong == InstallFile

\* The file package() deletes.
package_unlink_target == ConfigVersionFile

\* os.unlink
Unlink(p, f) == [g \in DOMAIN p \ {f} |-> p[g]]

\* Faulty variant: the files are adjusted before the install step runs.
package_after_install_last(p) ==
    CASE p = "pkg_copy" -> "cfg_check"
      [] p = "cfg_return" -> "pkg_rename"
      [] p = "pkg_rename" -> "pkg_unlink"
      [] p = "pkg_unlink" -> "pkg_install"
      [] p = "pkg_install" -> "idle"

\* Statement order of package().
package_after(p) ==
    CASE p = "pkg_copy" -> "cfg_check"
      [] p = "cfg_return" -> "pkg_install"
      [] p = "pkg_install" -> "pkg_rename"
      [] p = "pkg_rename" -> "pkg_unlink"
      [] p = "pkg_unlink" -> "idle"

----------------------------------------------------------------------------
\* package_id()

\* Faulty variant: package_id() leaves self.info as it is.
header_only_noop(i) == i

\* self.info.header_only(): settings, options and requirements are cleared.
header_only(i) == [settings |-> EmptyMap, options |-> EmptyMap, requires |-> {}]

\* The package id is a digest of self.info and of nothing else.
PackageKey(i) == <<"package_id", i.settings, i.options, i.requires>>

----------------------------------------------------------------------------
\* package_info()

\* Faulty variant: the include directory replaces the list.
package_info_includedirs_assign(cur) ==
    << join(package_folder, <<"include", "pybind11">>) >>

\* self.cpp_info.includedirs.append(os.path.join(self.package_folder, ...))
package_info_includedirs(cur) ==
    Append(cur, join(package_folder, <<"include", "pybind11">>))

cmake_base_path == <<"lib", "cmake", "pybind11">>

\* self.cpp_info.builddirs = [cmake_base_path]
package_info_builddirs(cur) == << cmake_base_path >>

get_path(filename) == join(cmake_base_path, <<filename>>)

\* self.cpp_info.build_modules = [...]
package_info_build_modules(cur) ==
    << get_path("FindPythonLibsNew.cmake"), get_path("pybind11Install.cmake") >>

----------------------------------------------------------------------------
\* Control flow.

Methods == {"source", "build", "package", "package_id", "package_info"}

\* First statement of each method.
Entry(m) ==
    CASE m = "source" -> "src_get"
      [] m = "build" -> "cfg_check"
      [] m = "package" -> "pkg_copy"
      [] m = "package_id" -> "pid_header_only"
      [] m = "package_info" -> "info_includedirs"

\* The program point after p in method m, when the statement at p succeeds.
After(p, m) ==
    CASE p \in {"cfg_new", "cfg_def1", "cfg_def2", "cfg_def3", "cfg_configure"}
            -> configure_after(p)
      [] m = "source" -> (IF p = "src_get" THEN "src_rename" ELSE "idle")
      [] m = "build" -> (IF p = "cfg_return" THEN "build_build" ELSE "idle")
      [] m = "package" -> package_after(p)
      [] m = "package_id" -> "idle"
      [] m = "package_info" ->
            (CASE p = "info_includedirs" -> "info_builddirs"
               [] p = "info_builddirs" -> "info_build_modules"
               [] p = "info_build_modules" -> "idle")

\* Faulty variant: a failed statement is swallowed and the method carries on.
OnFail_swallow(p, m) == After(p, m)

\* No method catches anything: the exception of a failed statement leaves the
\* method and reaches the caller.
OnFail(p, m) == "raised"

----------------------------------------------------------------------------
\* The state machine.

Init ==
    /\ platform \in {"posix", "nt"}
    /\ version \in Versions
    /\ pc = "idle"
    /\ method = "none"
    /\ ncalls = 0
    /\ ops = <<>>
    /\ completed = [m \in Methods |-> 0]
    /\ work = EmptyMap
    /\ pkg = EmptyMap
    /\ installed = EmptyMap
    /\ installs = 0
    /\ archive_top = ""
    /\ fetched_url = ""
    /\ handles = <<>>
    /\ _cmake = None
    /\ cmake = None
    /\ returned = {}
    /\ configures = 0
    /\ cpp_info \in CppInfoSpace
    /\ cpp_info0 = cpp_info
    /\ \E s \in SettingsSpace :
          info = [settings |-> [os |-> platform, arch |-> s.arch,
                                compiler |-> s.compiler, build_type |-> s.build_type],
                  options |-> EmptyMap, requires |-> {}]
    /\ package_key = <<>>

Log(op, ok) == ops' = Append(ops, [op |-> op, ok |-> ok])

\* The statement at p succeeded: go on, and count the call when it returns.
Succeed(p) ==
    /\ pc' = After(p, method)
    /\ completed' = IF After(p, method) = "idle"
                    THEN [completed EXCEPT ![method] = @ + 1]
                    ELSE completed

\* The statement at p raised.
Fail(p) ==
    /\ pc' = OnFail(p, method)
    /\ UNCHANGED completed

\* The caller invokes method m on the recipe instance.
Call(m) ==
    /\ pc = "idle"
    /\ ncalls < MaxCalls
    /\ pc' = Entry(m)
    /\ method' = m
    /\ ncalls' = ncalls + 1
    /\ ops' = <<>>
    /\ cmake' = None
    /\ UNCHANGED <<platform, version, completed, work, pkg, installed, installs,
                   archive_top, fetched_url, handles, _cmake, returned, configures,
                   cpp_info, cpp_info0, info, package_key>>

CallSource == Call("source")

CallBuild == Call("build")

CallPackage == Call("package")

CallPackageId == Call("package_id")

CallPackageInfo == Call("package_info")

\* tools.get(url): download and unpack, or fail.
SourceGet ==
    /\ pc = "src_get"
    /\ fetched_url' = fetch_url(version)
    /\ \/ /\ \E top \in ArchiveTops(version) :
                /\ archive_top' = top
                /\ work' = Extract(work, top)
          /\ Log("src_get", TRUE)
          /\ Succeed("src_get")
       \/ /\ Log("src_get", FALSE)
          /\ Fail("src_get")
          /\ UNCHANGED <<archive_top, work>>
    /\ UNCHANGED <<platform, version, method, ncalls, pkg, installed, installs,
                   handles, _cmake, cmake, returned, configures, cpp_info,
                   cpp_info0, info, package_key>>

\* os.rename("{}-{}".format(self.name, self.version), self._source_subfolder)
SourceRename ==
    /\ pc = "src_rename"
    /\ IF RenameDirOk(work, extracted_name(name, version), source_rename_target)
       THEN /\ work' = RenameDir(work, extracted_name(name, version),
                                 source_rename_target)
            /\ Log("src_rename", TRUE)
            /\ Succeed("src_rename")
       ELSE /\ Log("src_rename", FALSE)
            /\ Fail("src_rename")
            /\ UNCHANGED work
    /\ UNCHANGED <<platform, version, method, ncalls, pkg, installed, installs,
                   archive_top, fetched_url, handles, _cmake, cmake, returned,
                   configures, cpp_info, cpp_info0, info, package_key>>

\* if self._cmake: return self._cmake
ConfigureCheck ==
    /\ pc = "cfg_check"
    /\ pc' = IF configure_cmake_memo(_cmake) THEN "cfg_return" ELSE "cfg_new"
    /\ UNCHANGED <<platform, version, method, ncalls, ops, completed, work, pkg,
                   installed, installs, archive_top, fetched_url, handles, _cmake,
                   cmake, returned, configures, cpp_info, cpp_info0, info,
                   package_key>>

\* self._cmake = CMake(self)
ConfigureNew ==
    /\ pc = "cfg_new"
    /\ handles' = Append(handles, NewHandle(method))
    /\ _cmake' = Len(handles) + 1
    /\ Succeed("cfg_new")
    /\ UNCHANGED <<platform, version, method, ncalls, ops, work, pkg, installed,
                   installs, archive_top, fetched_url, cmake, returned, configures,
                   cpp_info, cpp_info0, info, package_key>>

\* self._cmake.definitions[key] = value, three times
ConfigureDefine ==
    /\ pc \in {"cfg_def1", "cfg_def2", "cfg_def3"}
    /\ handles' = [handles EXCEPT ![_cmake].definitions =
                      (definition_set(pc).key :> definition_set(pc).value) @@ @]
    /\ Succeed(pc)
    /\ UNCHANGED <<platform, version, method, ncalls, ops, work, pkg, installed,
                   installs, archive_top, fetched_url, _cmake, cmake, returned,
                   configures, cpp_info, cpp_info0, info, package_key>>

\* self._cmake.configure(source_dir=..., defs=...): the external tool runs with
\* the definitions the handle holds now; it fails on a directory it cannot
\* configure and may fail on any other.
ConfigureRun ==
    /\ pc = "cfg_configure"
    /\ configures' = configures + 1
    /\ \E ok \in {b \in BOOLEAN : b => Configurable(work, configure_source_dir)} :
          /\ handles' = [handles EXCEPT ![_cmake] =
                [@ EXCEPT !.configure_invoked = TRUE,
                          !.configured = ok,
                          !.cfg_definitions = handles[_cmake].definitions,
                          !.cfg_source_dir = configure_source_dir,
                          !.cfg_defs = configure_defs]]
          /\ Log("cfg_configure", ok)
          /\ IF ok THEN Succeed("cfg_configure") ELSE Fail("cfg_configure")
    /\ UNCHANGED <<platform, version, method, ncalls, work, pkg, installed,
                   installs, archive_top, fetched_url, _cmake, cmake, returned,
                   cpp_info, cpp_info0, info, package_key>>

\* return self._cmake, received as "cmake = self._configure_cmake()"
ConfigureReturn ==
    /\ pc = "cfg_return"
    /\ cmake' = _cmake
    /\ returned' = returned \cup {_cmake}
    /\ Succeed("cfg_return")
    /\ UNCHANGED <<platform, version, method, ncalls, ops, work, pkg, installed,
                   installs, archive_top, fetched_url, handles, _cmake, configures,
                   cpp_info, cpp_info0, info, package_key>>

\* cmake.build(): fails on a handle that was never configured successfully.
BuildBuild ==
    /\ pc = "build_build"
    /\ handles' = [handles EXCEPT ![cmake].build_invoked = TRUE]
    /\ \E ok \in {b \in BOOLEAN : b => handles[cmake].configured} :
          /\ Log("build_build", ok)
          /\ IF ok THEN Succeed("build_build") ELSE Fail("build_build")
    /\ UNCHANGED <<platform, version, method, ncalls, work, pkg, installed,
                   installs, archive_top, fetched_url, _cmake, cmake, returned,
                   configures, cpp_info, cpp_info0, info, package_key>>

\* self.copy("LICENSE", src=self._source_subfolder, dst="licenses")
PackageCopy ==
    /\ pc = "pkg_copy"
    /\ \/ /\ pkg' = package_copy(pkg, work)
          /\ Log("pkg_copy", TRUE)
          /\ Succeed("pkg_copy")
       \/ /\ Log("pkg_copy", FALSE)
          /\ Fail("pkg_copy")
          /\ UNCHANGED pkg
    /\ UNCHANGED <<platform, version, method, ncalls, work, installed, installs,
                   archive_top, fetched_url, handles, _cmake, cmake, returned,
                   configures, cpp_info, cpp_info0, info, package_key>>

\* cmake.install(): fails on a handle that was never configured successfully.
PackageInstall ==
    /\ pc = "pkg_install"
    /\ handles' = [handles EXCEPT ![cmake].install_invoked = TRUE]
    /\ \E ok \in {b \in BOOLEAN : b => handles[cmake].configured} :
          /\ Log("pkg_install", ok)
          /\ IF ok
             THEN /\ pkg' = InstallTree(pkg, handles[cmake].cfg_definitions,
                                        installs + 1)
                  /\ installed' = pkg'
                  /\ installs' = installs + 1
                  /\ Succeed("pkg_install")
             ELSE /\ Fail("pkg_install")
                  /\ UNCHANGED <<pkg, installed, installs>>
    /\ UNCHANGED <<platform, version, method, ncalls, work, archive_top,
                   fetched_url, _cmake, cmake, returned, configures, cpp_info,
                   cpp_info0, info, package_key>>

\* os.rename(lib_folder/pybind11Config.cmake, lib_folder/pybind11Install.cmake)
PackageRename ==
    /\ pc = "pkg_rename"
    /\ IF RenameFileOk(pkg, ConfigFile, package_rename_target, platform)
       THEN /\ pkg' = RenameFile(pkg, ConfigFile, package_rename_target)
            /\ Log("pkg_rename", TRUE)
            /\ Succeed("pkg_rename")
       ELSE /\ Log("pkg_rename", FALSE)
            /\ Fail("pkg_rename")
            /\ UNCHANGED pkg
    /\ UNCHANGED <<platform, version, method, ncalls, work, installed, installs,
                   archive_top, fetched_url, handles, _cmake, cmake, returned,
                   configures, cpp_info, cpp_info0, info, package_key>>

\* os.unlink(lib_folder/pybind11ConfigVersion.cmake)
PackageUnlink ==
    /\ pc = "pkg_unlink"
    /\ IF package_unlink_target \in DOMAIN pkg
       THEN /\ pkg' = Unlink(pkg, package_unlink_target)
            /\ Log("pkg_unlink", TRUE)
            /\ Succeed("pkg_unlink")
       ELSE /\ Log("pkg_unlink", FALSE)
            /\ Fail("pkg_unlink")
            /\ UNCHANGED pkg
    /\ UNCHANGED <<platform, version, method, ncalls, work, installed, installs,
                   archive_top, fetched_url, handles, _cmake, cmake, returned,
                   configures, cpp_info, cpp_info0, info, package_key>>

\* self.info.header_only(); the packaging tool then derives the package id.
PackageId ==
    /\ pc = "pid_header_only"
    /\ info' = header_only(info)
    /\ package_key' = PackageKey(info')
    /\ Succeed("pid_header_only")
    /\ UNCHANGED <<platform, version, method, ncalls, ops, work, pkg, installed,
                   installs, archive_top, fetched_url, handles, _cmake, cmake,
                   returned, configures, cpp_info, cpp_info0>>

\* self.cpp_info.includedirs.append(...)
PackageInfoIncludedirs ==
    /\ pc = "info_includedirs"
    /\ cpp_info' = [cpp_info EXCEPT
                       !.includedirs = package_info_includedirs(@)]
    /\ Succeed("info_includedirs")
    /\ UNCHANGED <<platform, version, method, ncalls, ops, work, pkg, installed,
                   installs, archive_top, fetched_url, handles, _cmake, cmake,
                   returned, configures, cpp_info0, info, package_key>>

\* self.cpp_info.builddirs = [cmake_base_path]
PackageInfoBuilddirs ==
    /\ pc = "info_builddirs"
    /\ cpp_info' = [cpp_info EXCEPT !.builddirs = package_info_builddirs(@)]
    /\ Succeed("info_builddirs")
    /\ UNCHANGED <<platform, version, method, ncalls, ops, work, pkg, installed,
                   installs, archive_top, fetched_url, handles, _cmake, cmake,
                   returned, configures, cpp_info0, info, package_key>>

\* self.cpp_info.build_modules = [get_path(...), get_path(...)]
PackageInfoBuildModules ==
    /\ pc = "info_build_modules"
    /\ cpp_info' = [cpp_info EXCEPT
                       !.build_modules = package_info_build_modules(@)]
    /\ Succeed("info_build_modules")
    /\ UNCHANGED <<platform, version, method, ncalls, ops, work, pkg, installed,
                   installs, archive_top, fetched_url, handles, _cmake, cmake,
                   returned, configures, cpp_info0, info, package_key>>

\* A caller that catches the exception and goes on using the same instance.
CallerCatches ==
    /\ pc = "raised"
    /\ pc' = "idle"
    /\ UNCHANGED <<platform, version, method, ncalls, ops, completed, work, pkg,
                   installed, installs, archive_top, fetched_url, handles, _cmake,
                   cmake, returned, configures, cpp_info, cpp_info0, info,
                   package_key>>

Next ==
    \/ CallSource \/ CallBuild \/ CallPackage \/ CallPackageId \/ CallPackageInfo
    \/ SourceGet \/ SourceRename
    \/ ConfigureCheck \/ ConfigureNew \/ ConfigureDefine \/ ConfigureRun
    \/ ConfigureReturn
    \/ BuildBuild
    \/ PackageCopy \/ PackageInstall \/ PackageRename \/ PackageUnlink
    \/ PackageId
    \/ PackageInfoIncludedirs \/ PackageInfoBuilddirs \/ PackageInfoBuildModules

\* One run under the packaging tool: an exception ends the run.
Spec == Init /\ [][Next]_vars

NextReuse == Next \/ CallerCatches

\* The instance stays in use after a method has raised.
SpecReuse == Init /\ [][NextReuse]_vars

----------------------------------------------------------------------------
\* Properties.

\* C1: in every execution of package(), the install step has been invoked and
\* has completed before the rename of pybind11Config.cmake and before the
\* deletion of pybind11ConfigVersion.cmake are attempted; when install fails
\* neither is attempted; a package() that returns has run install.
C1_InstallBeforeAdjust ==
    method = "package" =>
        /\ \A i \in 1..Len(ops) :
              ops[i].op \in {"pkg_rename", "pkg_unlink"} =>
                 \E j \in 1..(i - 1) : ops[j].op = "pkg_install" /\ ops[j].ok
        /\ pc = "idle" => \E j \in 1..Len(ops) : ops[j].op = "pkg_install" /\ ops[j].ok

C1_Witness ==
    /\ method = "package"
    /\ pc = "idle"
    /\ \E i \in 1..Len(ops) : ops[i].op = "pkg_unlink" /\ ops[i].ok

\* C2: over any sequence of build() and package() calls on one instance, at
\* most one handle is ever constructed, every call that obtains a handle
\* obtains that one, and configure is invoked exactly once.
C2_SingleHandle ==
    /\ Len(handles) <= 1
    /\ configures <= 1
    /\ returned \subseteq {1}
    /\ cmake \in {None, _cmake}
    /\ returned # {} => configures = 1 /\ _cmake = 1

C2_Witness ==
    /\ completed["build"] >= 1
    /\ completed["package"] >= 1
    /\ configures = 1
    /\ returned = {1}

\* C3 as stated: the lifecycle is linear and without repetition: build
\* completes only after source, package only after build, package_info only
\* after package, and no step completes twice.
C3_LinearLifecycle ==
    /\ \A m \in Methods : completed[m] <= 1
    /\ completed["build"] > 0 => completed["source"] > 0
    /\ completed["package"] > 0 => completed["build"] > 0
    /\ completed["package_info"] > 0 => completed["package"] > 0

\* C3 as amended: the only order the recipe imposes is that build and package
\* take effect after source acquisition has completed: no handle is
\* configured, nothing is built or installed, and neither method returns,
\* before source() has returned.
C3_SourceFirst ==
    /\ completed["build"] > 0 => completed["source"] > 0
    /\ completed["package"] > 0 => completed["source"] > 0
    /\ installs > 0 => completed["source"] > 0
    /\ \A h \in 1..Len(handles) : handles[h].configured => completed["source"] > 0
    /\ \A i \in 1..Len(ops) :
          ops[i].op \in {"build_build", "pkg_install"} /\ ops[i].ok
             => completed["source"] > 0

C3_Witness ==
    /\ completed["package"] > 0
    /\ completed["build"] = 0
    /\ completed["source"] > 0

\* C4: a failed operation is fatal: it is the last operation of its call, the
\* exception leaves the method, no operation is attempted twice in a call, the
\* failing step leaves the source and package folders as they were, and
\* nothing at all happens after the exception.
C4_FailureIsFatal ==
    /\ [](/\ \A i \in 1..(Len(ops) - 1) : ops[i].ok
          /\ (ops # <<>> /\ ~ops[Len(ops)].ok) => pc = "raised"
          /\ \A i, j \in 1..Len(ops) : i < j => ops[i].op # ops[j].op)
    /\ [][/\ pc # "raised"
          /\ pc' = "raised" => work' = work /\ pkg' = pkg]_vars

C4_Witness ==
    /\ pc = "raised"
    /\ ops[Len(ops)] = [op |-> "pkg_rename", ok |-> FALSE]
    /\ <<"package_folder", "lib", "cmake", "pybind11",
         "pybind11ConfigVersion.cmake">> \in DOMAIN pkg
    /\ <<"package_folder", "licenses", "LICENSE">> \in DOMAIN pkg
    /\ <<"package_folder", "include", "pybind11", "pybind11.h">> \in DOMAIN pkg

\* C5 as stated: once package_info() has returned there is exactly one include
\* directory, one build-integration directory and the two build-integration
\* files in order, whatever cpp_info held before.
C5_ExactlyOneEach ==
    (method = "package_info" /\ pc = "idle") =>
        /\ cpp_info.includedirs = << <<"package_folder", "include", "pybind11">> >>
        /\ cpp_info.builddirs = << <<"lib", "cmake", "pybind11">> >>
        /\ cpp_info.build_modules =
              << <<"lib", "cmake", "pybind11", "FindPythonLibsNew.cmake">>,
                 <<"lib", "cmake", "pybind11", "pybind11Install.cmake">> >>

\* C5 as amended: each package_info() appends the one include directory to
\* the includedirs it finds, keeping the earlier entries, and sets builddirs
\* to the one directory and build_modules to the two files in order.
C5_AppendsOne ==
    LET n0 == Len(cpp_info0.includedirs)
        n  == completed["package_info"]
              + IF method = "package_info"
                   /\ pc \in {"info_builddirs", "info_build_modules"}
                THEN 1 ELSE 0
    IN  /\ Len(cpp_info.includedirs) = n0 + n
        /\ \A i \in 1..n0 : cpp_info.includedirs[i] = cpp_info0.includedirs[i]
        /\ \A i \in (n0 + 1)..(n0 + n) :
              cpp_info.includedirs[i] = <<"package_folder", "include", "pybind11">>
        /\ completed["package_info"] > 0 =>
              /\ cpp_info.builddirs = << <<"lib", "cmake", "pybind11">> >>
              /\ cpp_info.build_modules =
                    << <<"lib", "cmake", "pybind11", "FindPythonLibsNew.cmake">>,
                       <<"lib", "cmake", "pybind11", "pybind11Install.cmake">> >>

C5_Witness ==
    /\ method = "package_info"
    /\ pc = "idle"
    /\ cpp_info0.includedirs # <<>>
    /\ Len(cpp_info.includedirs) = Len(cpp_info0.includedirs) + 1

\* The URL of the release archive of the recipe's version.
C6_Url ==
    fetched_url # "" =>
        fetched_url =
           IF version = "2.10.1"
           THEN "https://github.com/pybind/pybind11/archive/refs/tags/v2.10.1.tar.gz"
           ELSE "https://github.com/pybind/pybind11/archive/refs/tags/v2.9.2.tar.gz"

\* C6 as stated: source() fetches that URL, and whenever fetch and extraction
\* succeeded the extracted top-level directory ends up renamed to
\* source_subfolder, whatever its name.
C6_AlwaysRenamed ==
    /\ C6_Url
    /\ (method = "source" /\ pc \in {"idle", "raised"}
        /\ ops # <<>> /\ ops[1].ok)
          => /\ "source_subfolder" \in DOMAIN work
             /\ archive_top \notin DOMAIN work

\* C6 as amended: source() fetches that URL; it renames the directory named
\* <name>-<version>, so a source() that returns leaves the archive's files in
\* source_subfolder, an archive with any other top-level name makes the
\* rename raise with the extracted directory left where it was, and an archive
\* with that name is renamed unless source_subfolder exists already.
C6_RenamesNamedDir ==
    LET expected == IF version = "2.10.1" THEN "pybind11-2.10.1" ELSE "pybind11-2.9.2"
        fetched  == method = "source" /\ pc \in {"idle", "raised"}
                    /\ ops # <<>> /\ ops[1].ok
    IN  /\ C6_Url
        /\ (fetched /\ pc = "idle") =>
              /\ archive_top = expected
              /\ "source_subfolder" \in DOMAIN work
              /\ work["source_subfolder"] = ArchiveFiles
              /\ expected \notin DOMAIN work
        /\ (fetched /\ archive_top # expected) =>
              /\ pc = "raised"
              /\ archive_top \in DOMAIN work
        /\ (fetched /\ archive_top = expected /\ pc = "raised") =>
              completed["source"] > 0

C6_Witness ==
    /\ method = "source"
    /\ pc = "idle"
    /\ archive_top = "pybind11-2.10.1"
    /\ "source_subfolder" \in DOMAIN work

\* C7: the package id computed after package_id() is the same in every run,
\* whatever the compiler, architecture and build-type settings of the run.
C7_KeyIgnoresSettings ==
    package_key # <<>> =>
        package_key = <<"package_id", EmptyMap, EmptyMap, {}>>

C7_Witness ==
    /\ completed["package_id"] > 0
    /\ package_key # <<>>

\* C8: when package() has returned, the package folder holds licenses/LICENSE
\* and pybind11Install.cmake with the content install generated as
\* pybind11Config.cmake, holds neither pybind11Config.cmake nor
\* pybind11ConfigVersion.cmake, differs from the installed tree in nothing
\* else, and holds every exported build module named pybind11Install.cmake.
C8_PackagedTree ==
    LET lib  == <<"package_folder", "lib", "cmake", "pybind11">>
        conf == lib \o <<"pybind11Config.cmake">>
        inst == lib \o <<"pybind11Install.cmake">>
        cver == lib \o <<"pybind11ConfigVersion.cmake">>
    IN  (method = "package" /\ pc = "idle") =>
           /\ <<"package_folder", "licenses", "LICENSE">> \in DOMAIN pkg
           /\ inst \in DOMAIN pkg
           /\ conf \in DOMAIN installed
           /\ pkg[inst] = installed[conf]
           /\ conf \notin DOMAIN pkg
           /\ cver \notin DOMAIN pkg
           /\ DOMAIN pkg = (DOMAIN installed \ {conf, cver}) \cup {inst}
           /\ \A f \in DOMAIN pkg \ {inst} : pkg[f] = installed[f]
           /\ \A i \in 1..Len(cpp_info.build_modules) :
                 LET bm == cpp_info.build_modules[i]
                 IN  bm[Len(bm)] = "pybind11Install.cmake"
                        => (<<"package_folder">> \o bm) \in DOMAIN pkg

C8_Witness ==
    /\ method = "package"
    /\ pc = "idle"
    /\ completed["package_info"] > 0
    /\ installs = 1

\* C9: build and install are invoked only on a handle on which configure has
\* been invoked, and configure is invoked with the three fixed definitions
\* already set, the source subfolder as source directory and the interpreter
\* path as PYTHON_EXECUTABLE.
C9_ConfigureThenUse ==
    \A h \in 1..Len(handles) :
        /\ (handles[h].build_invoked \/ handles[h].install_invoked)
              => handles[h].configure_invoked
        /\ handles[h].configure_invoked =>
              /\ DOMAIN handles[h].cfg_definitions =
                    {"PYBIND11_INSTALL", "PYBIND11_TEST",
                     "PYBIND11_CMAKECONFIG_INSTALL_DIR"}
              /\ handles[h].cfg_definitions["PYBIND11_INSTALL"] = TRUE
              /\ handles[h].cfg_definitions["PYBIND11_TEST"] = FALSE
              /\ handles[h].cfg_definitions["PYBIND11_CMAKECONFIG_INSTALL_DIR"]
                    = <<"lib", "cmake", "pybind11">>
              /\ handles[h].cfg_source_dir = <<"source_folder", "source_subfolder">>
              /\ DOMAIN handles[h].cfg_defs = {"PYTHON_EXECUTABLE"}
              /\ handles[h].cfg_defs["PYTHON_EXECUTABLE"] = sys_executable

C9_Witness ==
    \E h \in 1..Len(handles) :
        /\ handles[h].created_by = "package"
        /\ handles[h].install_invoked
        /\ handles[h].configured

\* C10: between calls the memoized handle is one on which configure has
\* succeeded, every handle _configure_cmake() returns is such a handle, and
\* build and install are invoked on such handles only.
C10_MemoIsConfigured ==
    /\ (pc = "idle" /\ _cmake # None) => handles[_cmake].configured
    /\ \A h \in returned : handles[h].configured
    /\ \A h \in 1..Len(handles) :
          (handles[h].build_invoked \/ handles[h].install_invoked)
             => handles[h].configured

====
